---- MODULE Spec2Model ----
(***************************************************************************)
(* Futsal Leaderboard API (src/main.py, src/schemas.py).                   *)
(*                                                                         *)
(* The state is the four MongoDB collections the handlers use (team,       *)
(* player, match, formation), the position of every request that is in     *)
(* flight between two database calls, and the last leaderboard response.   *)
(* A handler is cut into steps at its database calls: each find_one,       *)
(* insert_one and update_one is atomic on its own document, nothing else   *)
(* is.  The find_one that closes a handler only builds the response body,  *)
(* which is not modelled, so it is part of the handler's last step.        *)
(***************************************************************************)
EXTENDS Integers, Sequences, FiniteSets, TLC

VARIABLES team, player, match, formation, req, lb

vars == <<team, player, match, formation, req, lb>>

(***************************************************************************)
(* Values.  A JSON/BSON value of the model is a pair <<tag, text>>, so     *)
(* that a string and the ObjectId parsed from it are different values      *)
(* ("" == ObjectId(...) is False in Python).                               *)
(***************************************************************************)
None == <<"none", "">>
Str(s) == <<"str", s>>
Oid(s) == <<"oid", s>>

\* The strings bson's ObjectId(...) accepts (24 hex digits), by collection.
TeamHex == <<"t1", "t2", "t3">>
PlayerHex == <<"p1", "p2", "p3">>
MatchHex == <<"m1", "m2">>
FormationHex == <<"f1", "f2">>

Range(s) == {s[i] : i \in 1..Len(s)}

HexStrings == Range(TeamHex) \cup Range(PlayerHex) \cup Range(MatchHex)
                \cup Range(FormationHex)

\* Strings ObjectId(...) rejects: the empty string and a non-hex string.
EmptyStr == Str("")
BadStr == Str("zz")

\* HTTP outcomes of a request.
OK200 == "200"
Invalid400 == "400 Invalid id"
Conflict400 == "400 Team already exists in this city"
NotFound404 == "404 Match not found"
Pending == "-"

Raised == <<"raised", Invalid400>>

\* to_object_id: None stays None, a string ObjectId accepts becomes that
\* ObjectId, anything else raises HTTP 400.
to_object_id(id_str) ==
    IF id_str = None THEN None
    ELSE IF id_str[1] = "str" /\ id_str[2] \in HexStrings THEN Oid(id_str[2])
    ELSE Raised

\* Python truthiness of an optional string: None and "" are falsy.
Truthy(v) == v # None /\ v # EmptyStr

\* insert_one gives the new document an ObjectId no stored document has: the
\* first unused one of the collection's pool.
NewId(pool, used) ==
    Oid(pool[CHOOSE i \in 1..Len(pool) :
                /\ Oid(pool[i]) \notin used
                /\ \A j \in 1..(i - 1) : Oid(pool[j]) \in used])

HasFreeId(pool, used) == \E i \in 1..Len(pool) : Oid(pool[i]) \notin used

\* A collection is a function from the _id of each stored document to the
\* document's other fields.
Put(coll, id, doc) == [k \in DOMAIN coll \cup {id} |-> IF k = id THEN doc ELSE coll[k]]

Idle(status) == [pc |-> "idle", status |-> status]

\* A collection with no document.
Empty == [x \in {} |-> None]

\* lb holds the response of a leaderboard request until the next request of
\* any kind is served.
NoResponse == [query |-> [kind |-> "none"], rows |-> <<>>]

\* At most this many add_event calls are accepted per match.
MaxEvents == 2

\* At most this many players are created.
MaxPlayers == 2

\* Leaderboards are queried with a limit of 1..MaxLimit.
MaxLimit == 2

\* At most this many goals are added in the team leaderboard specification.
MaxLbGoals == 2

EventTypes == {"goal", "assist", "yellow", "red", "own_goal", "substitution"}

\* EventCreate.model_dump() after the id conversions of add_event; minute,
\* notes and timestamp are stored with the event and read by no handler.
Event(type, team_id, player_id, secondary_player_id) ==
    [type |-> type, team_id |-> team_id, player_id |-> player_id,
     secondary_player_id |-> secondary_player_id]

(***************************************************************************)
(* Matches and events                                                      *)
(***************************************************************************)

\* The document start_match inserts (started_at is read by no handler).
NewMatch(home_id, away_id) ==
    [home_team_id |-> home_id, away_team_id |-> away_id, ended_at |-> None,
     events |-> <<>>, home_score |-> 0, away_score |-> 0,
     winner_team_id |-> None]

\* POST /matches/start: one insert_one.  Neither team id is looked up in the
\* team collection, and nothing compares the two ids.
start_match(w, home_team_id, away_team_id) ==
    /\ req[w].pc = "idle"
    /\ LET home == to_object_id(home_team_id)
           away == to_object_id(away_team_id)
       IN  IF home = Raised \/ away = Raised
           THEN /\ req' = [req EXCEPT ![w] = Idle(Invalid400)]
                /\ UNCHANGED match
           ELSE /\ HasFreeId(MatchHex, DOMAIN match)
                /\ match' = Put(match, NewId(MatchHex, DOMAIN match),
                                NewMatch(home, away))
                /\ req' = [req EXCEPT ![w] = Idle(OK200)]
    /\ lb' = NoResponse
    /\ UNCHANGED <<team, player, formation>>

\* add_event converts an id of the event only when the string is truthy.
ConvertIfTruthy(v) == IF Truthy(v) THEN to_object_id(v) ELSE v

\* ScoreInc with an own goal credited to the side that scored it.
ScoreInc_OwnGoalSameSide(type, ev_team, home_id, away_id) ==
    IF type \in {"goal", "own_goal"}
    THEN IF ev_team = home_id THEN <<1, 0>>
         ELSE IF ev_team = away_id THEN <<0, 1>>
         ELSE <<0, 0>>
    ELSE <<0, 0>>

\* The $inc the update of add_event carries: <<home_score, away_score>>.
ScoreInc(type, ev_team, home_id, away_id) ==
    IF type = "goal"
    THEN IF ev_team = home_id THEN <<1, 0>>
         ELSE IF ev_team = away_id THEN <<0, 1>>
         ELSE <<0, 0>>
    ELSE IF type = "own_goal"
    THEN IF ev_team = home_id THEN <<0, 1>>
         ELSE IF ev_team = away_id THEN <<1, 0>>
         ELSE <<0, 0>>
    ELSE <<0, 0>>

\* IncAndPush with the log overwritten ($set) instead of appended to ($push).
IncAndPush_SetsLog(doc, inc, ev) ==
    [doc EXCEPT !.home_score = @ + inc[1], !.away_score = @ + inc[2],
                !.events = <<ev>>]

\* update_one with {"$inc": ..., "$push": {"events": ev}} on one document.
IncAndPush(doc, inc, ev) ==
    [doc EXCEPT !.home_score = @ + inc[1], !.away_score = @ + inc[2],
                !.events = Append(@, ev)]

\* add_event calls in flight on match id that have not pushed their event yet.
PendingAdds(id) == Cardinality({w \in DOMAIN req : req[w].pc = "add_update" /\ req[w].id = id})

\* POST /matches/{match_id}/event, up to the update: find_one, then the ids
\* of the event are converted and the score update is chosen from the match
\* that was read.
add_event_find(w, match_id, type, team_id, player_id, secondary_player_id) ==
    /\ req[w].pc = "idle"
    /\ LET id == to_object_id(match_id)
           t == ConvertIfTruthy(team_id)
           p == ConvertIfTruthy(player_id)
           s == ConvertIfTruthy(secondary_player_id)
       IN  IF id = Raised
           THEN req' = [req EXCEPT ![w] = Idle(Invalid400)]
           ELSE IF id \notin DOMAIN match
           THEN req' = [req EXCEPT ![w] = Idle(NotFound404)]
           ELSE IF t = Raised \/ p = Raised \/ s = Raised
           THEN req' = [req EXCEPT ![w] = Idle(Invalid400)]
           ELSE /\ Len(match[id].events) + PendingAdds(id) < MaxEvents
                /\ req' = [req EXCEPT ![w] =
                             [pc |-> "add_update", id |-> id,
                              ev |-> Event(type, t, p, s),
                              inc |-> ScoreInc(type, t, match[id].home_team_id,
                                               match[id].away_team_id)]]
    /\ lb' = NoResponse
    /\ UNCHANGED <<team, player, match, formation>>

\* The update_one of add_event and the response.
add_event_update(w) ==
    /\ req[w].pc = "add_update"
    /\ match' = IF req[w].id \in DOMAIN match
                THEN [match EXCEPT ![req[w].id] = IncAndPush(@, req[w].inc, req[w].ev)]
                ELSE match
    /\ req' = [req EXCEPT ![w] = Idle(OK200)]
    /\ lb' = NoResponse
    /\ UNCHANGED <<team, player, formation>>

\* The winner end_match computes from the match it read.
Winner(m) ==
    IF m.home_score > m.away_score THEN m.home_team_id
    ELSE IF m.away_score > m.home_score THEN m.away_team_id
    ELSE None

\* POST /matches/{match_id}/end, up to the update.
end_match_find(w, match_id) ==
    /\ req[w].pc = "idle"
    /\ LET id == to_object_id(match_id)
       IN  IF id = Raised
           THEN req' = [req EXCEPT ![w] = Idle(Invalid400)]
           ELSE IF id \notin DOMAIN match
           THEN req' = [req EXCEPT ![w] = Idle(NotFound404)]
           ELSE req' = [req EXCEPT ![w] =
                          [pc |-> "end_update", id |-> id, winner |-> Winner(match[id])]]
    /\ lb' = NoResponse
    /\ UNCHANGED <<team, player, match, formation>>

\* update_one with {"$set": {"ended_at": utcnow(), "winner_team_id": winner}}.
SetEnded(doc, winner) ==
    [doc EXCEPT !.ended_at = <<"date", "utcnow">>, !.winner_team_id = winner]

\* The update_one of end_match and the response.
end_match_update(w) ==
    /\ req[w].pc = "end_update"
    /\ match' = IF req[w].id \in DOMAIN match
                THEN [match EXCEPT ![req[w].id] = SetEnded(@, req[w].winner)]
                ELSE match
    /\ req' = [req EXCEPT ![w] = Idle(OK200)]
    /\ lb' = NoResponse
    /\ UNCHANGED <<team, player, formation>>

(***************************************************************************)
(* Teams                                                                   *)
(***************************************************************************)

\* The fields of a Team the handlers read (coach and logo_url are stored and
\* never read).
Team(name, country, city) == [name |-> name, country |-> country, city |-> city]

\* database.create_document: inserts the model's fields as a new document of
\* the collection and returns its id.
create_document(coll, pool, data) == Put(coll, NewId(pool, DOMAIN coll), data)

\* The requests in flight at position pc.
InFlight(pc) == Cardinality({w \in DOMAIN req : req[w].pc = pc})

\* POST /teams, up to the insert: the find_one on (name, country, city).
create_team_find(w, t) ==
    /\ req[w].pc = "idle"
    /\ IF \E id \in DOMAIN team : team[id] = t
       THEN req' = [req EXCEPT ![w] = Idle(Conflict400)]
       ELSE /\ Cardinality(DOMAIN team) + InFlight("team_insert") < Len(TeamHex)
            /\ req' = [req EXCEPT ![w] = [pc |-> "team_insert", data |-> t]]
    /\ lb' = NoResponse
    /\ UNCHANGED <<team, player, match, formation>>

\* The insert of create_team and the response.
create_team_insert(w) ==
    /\ req[w].pc = "team_insert"
    /\ team' = create_document(team, TeamHex, req[w].data)
    /\ req' = [req EXCEPT ![w] = Idle(OK200)]
    /\ lb' = NoResponse
    /\ UNCHANGED <<player, match, formation>>

(***************************************************************************)
(* Formations                                                              *)
(***************************************************************************)

\* FormationSave.model_dump() with team_id converted (updated_at and
\* created_at are stored and never read).
Formation(team_id, name, positions) ==
    [team_id |-> team_id, name |-> name, positions |-> positions]

\* POST /formations, up to the write: find_one({"team_id": ...}) returns one
\* of the stored formations of the team, if there is any.
save_formation_find(w, team_id, name, positions) ==
    /\ req[w].pc = "idle"
    /\ LET tid == to_object_id(team_id)
           data == Formation(tid, name, positions)
           found == {id \in DOMAIN formation : formation[id].team_id = tid}
       IN  IF tid = Raised
           THEN req' = [req EXCEPT ![w] = Idle(Invalid400)]
           ELSE IF found # {}
           THEN \E existing \in found :
                   req' = [req EXCEPT ![w] =
                             [pc |-> "formation_update", id |-> existing, data |-> data]]
           ELSE /\ Cardinality(DOMAIN formation) + InFlight("formation_insert")
                      < Len(FormationHex)
                /\ req' = [req EXCEPT ![w] = [pc |-> "formation_insert", data |-> data]]
    /\ lb' = NoResponse
    /\ UNCHANGED <<team, player, match, formation>>

\* update_one({"_id": existing["_id"]}, {"$set": data}) and the response.
save_formation_update(w) ==
    /\ req[w].pc = "formation_update"
    /\ formation' = IF req[w].id \in DOMAIN formation
                    THEN [formation EXCEPT ![req[w].id] = req[w].data]
                    ELSE formation
    /\ req' = [req EXCEPT ![w] = Idle(OK200)]
    /\ lb' = NoResponse
    /\ UNCHANGED <<team, player, match>>

\* insert_one(data) and the response.
save_formation_insert(w) ==
    /\ req[w].pc = "formation_insert"
    /\ formation' = Put(formation, NewId(FormationHex, DOMAIN formation), req[w].data)
    /\ req' = [req EXCEPT ![w] = Idle(OK200)]
    /\ lb' = NoResponse
    /\ UNCHANGED <<team, player, match>>

(***************************************************************************)
(* Specification of the match handlers: two requests may be in flight at   *)
(* once on one match.                                                      *)
(***************************************************************************)
Workers == {"w1", "w2"}

Init ==
    /\ team = Empty
    /\ player = Empty
    /\ match = Empty
    /\ formation = Empty
    /\ req = [w \in Workers |-> Idle(Pending)]
    /\ lb = NoResponse

\* Team ids a start_match request carries: the match is t2 against t1 or t2
\* against itself.
StartHomeInputs == {Str("t2"), BadStr}
StartAwayInputs == {Str("t1"), Str("t2"), BadStr}

\* Match ids a request carries: stored or not, and malformed.
MatchIdInputs == {Str("m1"), Str("m2"), BadStr}

MatchEventTypes == {"goal", "own_goal", "yellow"}

\* Events every id of which add_event accepts: <<type, team_id, player_id,
\* secondary_player_id>>.
AcceptedEvents ==
    {<<ty, t, None, None>> : ty \in MatchEventTypes,
                              t \in {None, EmptyStr, Str("t1"), Str("t2")}}

\* Events with one id ObjectId(...) rejects.
RejectedEvents ==
    {<<"goal", BadStr, None, None>>, <<"goal", Str("t1"), BadStr, None>>,
     <<"goal", Str("t1"), None, BadStr>>}

\* add_event requests: every event at the first match id, and an accepted and
\* a rejected event at an id that may resolve to nothing and at a malformed id.
AddEventInputs ==
    ({Str("m1")} \X (AcceptedEvents \cup RejectedEvents))
    \cup ({Str("m2"), BadStr}
            \X {<<"goal", Str("t1"), None, None>>, <<"goal", BadStr, None, None>>})

Next ==
    \/ \E w \in Workers, h \in StartHomeInputs, a \in StartAwayInputs :
          /\ h = BadStr \/ a = BadStr \/ DOMAIN match = {}
          /\ start_match(w, h, a)
    \/ \E w \in Workers, i \in AddEventInputs :
          add_event_find(w, i[1], i[2][1], i[2][2], i[2][3], i[2][4])
    \/ \E w \in Workers : add_event_update(w)
    \/ \E w \in Workers, id \in MatchIdInputs : end_match_find(w, id)
    \/ \E w \in Workers : end_match_update(w)

Spec == Init /\ [][Next]_vars

(***************************************************************************)
(* Properties of the match handlers, under Spec                            *)
(***************************************************************************)
CountEvents(events, P(_)) == Cardinality({i \in 1..Len(events) : P(events[i])})

\* C1 (as stated): in every state of every match, home_score is the number
\* of events that are a goal of the home team or an own goal of the away
\* team, and away_score the number that are a goal of the away team or an
\* own goal of the home team, whatever the two team ids.
C1_ScoresCountCreditedEvents ==
    \A id \in DOMAIN match :
        LET m == match[id]
            HomeCredit(e) == \/ e.type = "goal" /\ e.team_id = m.home_team_id
                             \/ e.type = "own_goal" /\ e.team_id = m.away_team_id
            AwayCredit(e) == \/ e.type = "goal" /\ e.team_id = m.away_team_id
                             \/ e.type = "own_goal" /\ e.team_id = m.home_team_id
        IN  /\ m.home_score = CountEvents(m.events, HomeCredit)
            /\ m.away_score = CountEvents(m.events, AwayCredit)

\* C1 (amended): the same, with the home team tested first: an event of a
\* team that is both the home and the away team of the match counts once,
\* a goal for home_score and an own goal for away_score.  It holds in every
\* state, also between the steps of concurrent add_event calls.
C1_ScoresCountEventsHomeFirst ==
    \A id \in DOMAIN match :
        LET m == match[id]
            HomeCredit(e) == \/ e.type = "goal" /\ e.team_id = m.home_team_id
                             \/ /\ e.type = "own_goal"
                                /\ e.team_id = m.away_team_id
                                /\ e.team_id # m.home_team_id
            AwayCredit(e) == \/ /\ e.type = "goal"
                                /\ e.team_id = m.away_team_id
                                /\ e.team_id # m.home_team_id
                             \/ e.type = "own_goal" /\ e.team_id = m.home_team_id
        IN  /\ m.home_score = CountEvents(m.events, HomeCredit)
            /\ m.away_score = CountEvents(m.events, AwayCredit)

\* A match of two different teams holds an own goal that moved a score,
\* while another add_event on it is between its two steps.
C1_Witness ==
    \E id \in DOMAIN match :
        /\ match[id].home_team_id # match[id].away_team_id
        /\ \E i \in 1..Len(match[id].events) : match[id].events[i].type = "own_goal"
        /\ match[id].home_score + match[id].away_score = 1
        /\ PendingAdds(id) = 1

\* C4: while ended_at is null the winner is null, and once ended_at is set
\* the winner is null whenever the two scores are equal.
C4_WinnerNullUnlessDecided ==
    \A id \in DOMAIN match :
        /\ match[id].ended_at = None => match[id].winner_team_id = None
        /\ (match[id].ended_at # None /\ match[id].home_score = match[id].away_score)
              => match[id].winner_team_id = None

\* C5: the winner end_match writes with ended_at is the outcome of the scores
\* the match holds at the moment of that write.
C5_WinnerOfScoresAtEnd ==
    [][\A w \in Workers :
          (req[w].pc = "end_update" /\ req'[w].pc = "idle")
             => match'[req[w].id].winner_team_id = Winner(match[req[w].id])]_vars

\* An id string ObjectId(...) rejects.
Malformed(v) == v # None /\ to_object_id(v) = Raised

\* C9: add_event and end_match at a match id that resolves to nothing answer
\* 404, add_event at a stored match with a malformed team_id, player_id or
\* secondary_player_id answers 400, and no stored match changes in either.
C9_FailuresLeaveMatchesUnchanged ==
    [][\A w \in Workers :
          /\ \A i \in AddEventInputs :
                LET id == to_object_id(i[1]) e == i[2]
                IN  add_event_find(w, i[1], e[1], e[2], e[3], e[4]) =>
                      /\ (id # Raised /\ id \notin DOMAIN match)
                            => req'[w] = Idle(NotFound404) /\ match' = match
                      /\ (id \in DOMAIN match /\ (Malformed(e[2]) \/ Malformed(e[3])
                                                     \/ Malformed(e[4])))
                            => req'[w] = Idle(Invalid400) /\ match' = match
          /\ \A i \in MatchIdInputs :
                LET id == to_object_id(i)
                IN  (end_match_find(w, i) /\ id # Raised /\ id \notin DOMAIN match)
                        => req'[w] = Idle(NotFound404) /\ match' = match]_vars

IsPrefix(s, t) == Len(s) =< Len(t) /\ \A i \in 1..Len(s) : s[i] = t[i]

\* C10: the event log of a match is append-only: every step leaves each
\* stored match stored and its log a prefix of the new log, the update of an
\* add_event appends exactly its event at the end, and the update of
\* end_match leaves the log and both scores as they were.
C10_LogAppendOnly ==
    [][/\ \A id \in DOMAIN match :
             /\ id \in DOMAIN match'
             /\ IsPrefix(match[id].events, match'[id].events)
       /\ \A w \in Workers :
             /\ (req[w].pc = "add_update" /\ req'[w].pc = "idle")
                   => match'[req[w].id].events = Append(match[req[w].id].events, req[w].ev)
             /\ (req[w].pc = "end_update" /\ req'[w].pc = "idle")
                   => /\ match'[req[w].id].events = match[req[w].id].events
                      /\ match'[req[w].id].home_score = match[req[w].id].home_score
                      /\ match'[req[w].id].away_score = match[req[w].id].away_score]_vars

\* An ended match whose log grew after end_match had read the scores: the
\* recorded winner leads by no goal any more.
C10_Witness ==
    \E id \in DOMAIN match :
        /\ match[id].ended_at # None
        /\ match[id].winner_team_id = match[id].home_team_id
        /\ Len(match[id].events) = 2
        /\ match[id].home_score = match[id].away_score

(***************************************************************************)
(* Specification of create_team: two requests may be in flight at once.    *)
(***************************************************************************)
TeamNames == {Str("Falcons")}
Countries == {Str("X"), Str("Y")}
Cities == {Str("A"), Str("B")}

TeamInputs == {Team(n, c, y) : n \in TeamNames, c \in Countries, y \in Cities}

NextTeams ==
    \/ \E w \in Workers, t \in TeamInputs : create_team_find(w, t)
    \/ \E w \in Workers : create_team_insert(w)

SpecTeams == Init /\ [][NextTeams]_vars

\* C2: the team collection never holds two teams with the same
\* (name, country, city).
C2_TeamTupleUnique ==
    \A a, b \in DOMAIN team : team[a] = team[b] => a = b

(***************************************************************************)
(* Specification of save_formation: two requests may be in flight at once. *)
(***************************************************************************)
FormationTeamInputs == {Str("t1"), Str("t2"), BadStr}
FormationNames == {"2-2", "3-1"}
PositionInputs == {<<>>, <<[player_id |-> "p1", x |-> 50, y |-> 50]>>}

NextFormations ==
    \/ \E w \in Workers, t \in FormationTeamInputs, n \in FormationNames,
          ps \in PositionInputs : save_formation_find(w, t, n, ps)
    \/ \E w \in Workers : save_formation_update(w)
    \/ \E w \in Workers : save_formation_insert(w)

SpecFormations == Init /\ [][NextFormations]_vars

\* C3: the formation collection holds at most one formation per team.
C3_OneFormationPerTeam ==
    \A a, b \in DOMAIN formation :
        formation[a].team_id = formation[b].team_id => a = b

(***************************************************************************)
(* Players and the player leaderboard                                      *)
(***************************************************************************)

\* The fields of a Player the handlers read.
Player(name, team_id, country, city) ==
    [name |-> name, team_id |-> team_id, country |-> country, city |-> city]

\* POST /players: one insert_one; team_id is converted when truthy.
create_player(w, name, team_id, country, city) ==
    /\ req[w].pc = "idle"
    /\ LET tid == ConvertIfTruthy(team_id)
       IN  IF tid = Raised
           THEN /\ req' = [req EXCEPT ![w] = Idle(Invalid400)]
                /\ UNCHANGED player
           ELSE /\ Cardinality(DOMAIN player) < MaxPlayers
                /\ HasFreeId(PlayerHex, DOMAIN player)
                /\ player' = Put(player, NewId(PlayerHex, DOMAIN player),
                                 Player(name, tid, country, city))
                /\ req' = [req EXCEPT ![w] = Idle(OK200)]
    /\ lb' = NoResponse
    /\ UNCHANGED <<team, match, formation>>

Min(a, b) == IF a < b THEN a ELSE b

\* {"$limit": n}
Limit(rows, n) == SubSeq(rows, 1, Min(n, Len(rows)))

\* {"$sort": {key: -1}} on the output of a $group: the groups come in no
\* defined order and the sort fixes none among equal values, so every
\* arrangement of the groups by descending value is a possible outcome.
SortedDesc(keys, value(_)) ==
    {s \in [1..Cardinality(keys) -> keys] :
        /\ \A i, j \in DOMAIN s : i # j => s[i] # s[j]
        /\ \A i, j \in DOMAIN s : i < j => value(s[i]) >= value(s[j])}

\* player_filter of leaderboard_players: the country when scope is "country"
\* and a country is given, the city when scope is "city" and a city is given.
PlayerFilter(q) ==
    [country |-> IF q.scope = "country" /\ Truthy(q.country) THEN q.country ELSE None,
     city |-> IF q.scope = "city" /\ Truthy(q.city) THEN q.city ELSE None]

HasPlayerFilter(q) == PlayerFilter(q).country # None \/ PlayerFilter(q).city # None

\* player_ids: the ids db.player.find(player_filter) returns.
PlayerIds(q) ==
    {id \in DOMAIN player :
        /\ PlayerFilter(q).country # None => player[id].country = PlayerFilter(q).country
        /\ PlayerFilter(q).city # None => player[id].city = PlayerFilter(q).city}

\* The $match stages on events.type for a statistic.
StatSelects(stat, e) ==
    /\ e.type \in {"goal", "assist", "yellow", "red"}
    /\ IF stat = "goals" THEN e.type = "goal"
       ELSE IF stat = "assists" THEN e.type \in {"assist", "goal"}
       ELSE e.type = stat

\* The _id of the $group: the secondary player of a goal and the player of an
\* assist for "assists", the player of the event otherwise.
GroupKey(stat, e) ==
    IF stat = "assists"
    THEN IF e.type = "goal" THEN e.secondary_player_id ELSE e.player_id
    ELSE e.player_id

\* {"$unwind": "$events"} and the $match stages: the <<match id, index>> of
\* every event of every match that the statistic selects.
Unwound(stat) ==
    {x \in UNION {{<<id, i>> : i \in 1..Len(match[id].events)} : id \in DOMAIN match} :
        StatSelects(stat, match[x[1]].events[x[2]])}

\* {"$group": {"_id": key, "count": {"$sum": 1}}}: the keys, and each count.
GroupKeys(stat) == {GroupKey(stat, match[x[1]].events[x[2]]) : x \in Unwound(stat)}

GroupCount(stat, k) ==
    Cardinality({x \in Unwound(stat) : GroupKey(stat, match[x[1]].events[x[2]]) = k})

\* One row of the response of leaderboard_players.
PlayerRow(id, count) ==
    [player_id |-> id, player_name |-> player[id].name,
     team_name |-> IF Truthy(player[id].team_id) /\ player[id].team_id \in DOMAIN team
                   THEN team[player[id].team_id].name ELSE None,
     count |-> count, country |-> player[id].country, city |-> player[id].city]

\* What leaderboard_players does with the rows of the aggregation: with a
\* scope filter it keeps the rows of player_ids, then it skips the null key
\* and the keys that are no stored player, and joins the player.
PlayerRows(q, keys) ==
    LET InScope(k) == ~HasPlayerFilter(q) \/ k \in PlayerIds(q)
        Stored(k) == k # None /\ k \in DOMAIN player
        kept == SelectSeq(SelectSeq(keys, InScope), Stored)
    IN  [i \in 1..Len(kept) |-> PlayerRow(kept[i], GroupCount(q.stat, kept[i]))]

\* GET /leaderboard/players.  The reads of one request are taken on one state
\* of the collections; no write of a request in flight lies between them.
leaderboard_players(w, q) ==
    /\ req[w].pc = "idle"
    /\ IF HasPlayerFilter(q) /\ PlayerIds(q) = {}
       THEN lb' = [query |-> q, rows |-> <<>>]
       ELSE \E sorted \in SortedDesc(GroupKeys(q.stat), LAMBDA k : GroupCount(q.stat, k)) :
               lb' = [query |-> q, rows |-> PlayerRows(q, Limit(sorted, q.limit))]
    /\ req' = [req EXCEPT ![w] = Idle(OK200)]
    /\ UNCHANGED <<team, player, match, formation>>

(***************************************************************************)
(* Specification of the player leaderboard: players are created, events    *)
(* are added to two matches, one request at a time, and the leaderboard is *)
(* queried.                                                                *)
(***************************************************************************)
PlayerQuery(scope, country, city, stat, limit) ==
    [kind |-> "players", scope |-> scope, country |-> country, city |-> city,
     stat |-> stat, limit |-> limit]

\* Players are created in country X, city A or in country Y, city B.
PlayerInputs == {<<Str("X"), Str("A")>>, <<Str("Y"), Str("B")>>}

\* Events of the leaderboard specification: goals with and without an
\* assister, and assists.
LbPlayerEvents ==
    {<<"goal", None, Str("p1"), None>>, <<"goal", None, Str("p2"), None>>,
     <<"goal", None, Str("p2"), Str("p1")>>,
     <<"assist", None, Str("p1"), None>>, <<"assist", None, Str("p2"), None>>}

PlayerQueries ==
    {PlayerQuery(sc[1], sc[2], sc[3], st, n) :
        sc \in {<<"global", None, None>>, <<"country", Str("X"), None>>,
                <<"city", None, Str("B")>>},
        st \in {"goals", "assists"}, n \in 1..MaxLimit}

NextPlayersLb ==
    \/ \E i \in PlayerInputs : create_player("w1", Str("Ann"), None, i[1], i[2])
    \/ start_match("w1", Str("t1"), Str("t2"))
    \/ \E id \in {Str("m1"), Str("m2")}, e \in LbPlayerEvents :
          add_event_find("w1", id, e[1], e[2], e[3], e[4])
    \/ add_event_update("w1")
    \/ \E q \in PlayerQueries : leaderboard_players("w1", q)

SpecPlayersLb == Init /\ [][NextPlayersLb]_vars

\* The response on display is one of leaderboard_players.
IsPlayersResponse == lb.query.kind = "players"

RowIds(rows) == {rows[i].player_id : i \in 1..Len(rows)}

\* The number of events of the statistic that credit player X, counted on
\* the logs: the goals (assists, cards) of X, and for "assists" the goals
\* whose secondary player is X plus the assist events whose player is X.
CreditedEvents(stat, X) ==
    Cardinality(
      {x \in UNION {{<<id, i>> : i \in 1..Len(match[id].events)} : id \in DOMAIN match} :
          LET e == match[x[1]].events[x[2]]
          IN  IF stat = "assists"
              THEN \/ e.type = "goal" /\ e.secondary_player_id = X
                   \/ e.type = "assist" /\ e.player_id = X
              ELSE /\ e.type = (IF stat = "goals" THEN "goal" ELSE stat)
                   /\ e.player_id = X})

\* C6: with a country or city scope that resolves to a non-empty player set
\* S, the rows are the players of S with at least one event of the
\* statistic, by descending count, truncated to limit: min(k, limit) rows
\* when k players of S have such events.
C6_ScopeAppliedBeforeLimit ==
    (IsPlayersResponse /\ HasPlayerFilter(lb.query) /\ PlayerIds(lb.query) # {}) =>
        LET q == lb.query
            rows == lb.rows
            E == {X \in PlayerIds(q) : CreditedEvents(q.stat, X) > 0}
        IN  /\ Len(rows) = Min(Cardinality(E), q.limit)
            /\ \A i \in 1..Len(rows) :
                  /\ rows[i].player_id \in E
                  /\ rows[i].count = CreditedEvents(q.stat, rows[i].player_id)
            /\ \A i, j \in 1..Len(rows) :
                  /\ i # j => rows[i].player_id # rows[j].player_id
                  /\ i < j => rows[i].count >= rows[j].count
            /\ \A X \in E \ RowIds(rows), i \in 1..Len(rows) :
                  rows[i].count >= CreditedEvents(q.stat, X)

\* C7: the global assists leaderboard with a limit of at least the number of
\* stored players lists every stored player X with count = goals whose
\* secondary player is X + assist events whose player is X when that is
\* positive, and does not list X when it is zero.
C7_AssistsListEveryStoredPlayer ==
    (/\ IsPlayersResponse
     /\ lb.query.scope = "global"
     /\ lb.query.stat = "assists"
     /\ lb.query.limit >= Cardinality(DOMAIN player)) =>
        \A X \in DOMAIN player :
            LET c == CreditedEvents("assists", X)
            IN  IF c > 0
                THEN \E i \in 1..Len(lb.rows) :
                        lb.rows[i].player_id = X /\ lb.rows[i].count = c
                ELSE X \notin RowIds(lb.rows)

(***************************************************************************)
(* The team leaderboard                                                    *)
(***************************************************************************)
\* {"$sum": value} over the rows of one group; the values are naturals, and
\* the sum is the number of pairs <<row, n>> with 1 <= n <= value(row).
Sum(S, value(_)) == Cardinality(UNION {{<<x, n>> : n \in 1..value(x)} : x \in S})

\* team_filter of leaderboard_teams for scope "country" or "city": the
\* country when one is given, the city when scope is "city" and one is given.
TeamFilter(q) ==
    [country |-> IF Truthy(q.country) THEN q.country ELSE None,
     city |-> IF q.scope = "city" /\ Truthy(q.city) THEN q.city ELSE None]

\* team_ids: the ids db.team.find(team_filter) returns.
TeamIds(q) ==
    {id \in DOMAIN team :
        /\ TeamFilter(q).country # None => team[id].country = TeamFilter(q).country
        /\ TeamFilter(q).city # None => team[id].city = TeamFilter(q).city}

Scoped(q) == q.scope \in {"country", "city"}

\* {"$match": match_filter}: every match for scope "global", else the matches
\* whose home or away team is one of team_ids.
CandidateMatches(q) ==
    {id \in DOMAIN match :
        Scoped(q) => \/ match[id].home_team_id \in TeamIds(q)
                     \/ match[id].away_team_id \in TeamIds(q)}

\* The second $project and the $unwind: two pairs per candidate match, here
\* <<match id, side>>, with the fields of each pair.
Pairs(q) == CandidateMatches(q) \X {"home", "away"}

PairTeam(pr) ==
    IF pr[2] = "home" THEN match[pr[1]].home_team_id ELSE match[pr[1]].away_team_id

GoalsFor(pr) ==
    IF pr[2] = "home" THEN match[pr[1]].home_score ELSE match[pr[1]].away_score

GoalsAgainst(pr) ==
    IF pr[2] = "home" THEN match[pr[1]].away_score ELSE match[pr[1]].home_score

PairWin(pr) == IF GoalsFor(pr) > GoalsAgainst(pr) THEN 1 ELSE 0

PairDraw(pr) == IF match[pr[1]].home_score = match[pr[1]].away_score THEN 1 ELSE 0

\* Points with two points for a win.
Points_TwoPerWin(wins, draws) == wins * 2 + draws

\* {"$addFields": {"points": wins * 3 + draws}}
Points(wins, draws) == wins * 3 + draws

\* {"$group": {"_id": "$pairs.team", ...}} and $addFields: the groups, and
\* the fields of the group of team id.
TeamGroups(q) == {PairTeam(pr) : pr \in Pairs(q)}

TeamGroup(q, id) ==
    LET mine == {pr \in Pairs(q) : PairTeam(pr) = id}
        wins == Sum(mine, PairWin)
        draws == Sum(mine, PairDraw)
    IN  [goals |-> Sum(mine, GoalsFor), wins |-> wins, draws |-> draws,
         points |-> Points(wins, draws)]

\* One row of the response of leaderboard_teams.
TeamRow(q, id) ==
    [team_id |-> id, team_name |-> team[id].name, country |-> team[id].country,
     city |-> team[id].city, goals |-> TeamGroup(q, id).goals,
     wins |-> TeamGroup(q, id).wins, points |-> TeamGroup(q, id).points]

\* The join of leaderboard_teams: a row whose team is not stored is skipped.
TeamRows(q, keys) ==
    LET Stored(k) == k \in DOMAIN team
        kept == SelectSeq(keys, Stored)
    IN  [i \in 1..Len(kept) |-> TeamRow(q, kept[i])]

\* GET /leaderboard/teams.  The reads of one request are taken on one state
\* of the collections; no write of a request in flight lies between them.
leaderboard_teams(w, q) ==
    /\ req[w].pc = "idle"
    /\ IF Scoped(q) /\ TeamIds(q) = {}
       THEN lb' = [query |-> q, rows |-> <<>>]
       ELSE \E sorted \in SortedDesc(TeamGroups(q), LAMBDA k : TeamGroup(q, k)[q.stat]) :
               lb' = [query |-> q, rows |-> TeamRows(q, Limit(sorted, q.limit))]
    /\ req' = [req EXCEPT ![w] = Idle(OK200)]
    /\ UNCHANGED <<team, player, match, formation>>

(***************************************************************************)
(* Specification of the team leaderboard: teams are created, two matches   *)
(* are started between any two ids, goals are added, one request at a      *)
(* time, and the leaderboard is queried.                                   *)
(***************************************************************************)
TeamQuery(scope, country, city, stat, limit) ==
    [kind |-> "teams", scope |-> scope, country |-> country, city |-> city,
     stat |-> stat, limit |-> limit]

\* Teams are created in country X, city A or in country Y, city B.
LbTeamInputs == {Team(Str("Falcons"), Str("X"), Str("A")),
                 Team(Str("Falcons"), Str("Y"), Str("B"))}

LbTeamIdInputs == {Str("t1"), Str("t2")}

TeamQueries ==
    {TeamQuery("global", None, None, st, n) :
        st \in {"goals", "wins", "points"}, n \in 1..MaxLimit}
    \cup {TeamQuery("country", Str("X"), None, "points", MaxLimit),
          TeamQuery("city", Str("Y"), Str("B"), "points", MaxLimit)}

\* The add_event calls accepted so far, on all matches.
AcceptedAdds ==
    Cardinality(UNION {{<<id, i>> : i \in 1..Len(match[id].events)} : id \in DOMAIN match})
        + InFlight("add_update")

NextTeamsLb ==
    \/ \E t \in LbTeamInputs : create_team_find("w1", t)
    \/ create_team_insert("w1")
    \/ \E h \in LbTeamIdInputs, a \in LbTeamIdInputs : start_match("w1", h, a)
    \/ \E id \in {Str("m1"), Str("m2")}, t \in LbTeamIdInputs :
          /\ AcceptedAdds < MaxLbGoals
          /\ add_event_find("w1", id, "goal", t, None, None)
    \/ add_event_update("w1")
    \/ \E q \in TeamQueries : leaderboard_teams("w1", q)

SpecTeamsLb == Init /\ [][NextTeamsLb]_vars

\* The response on display is one of the global team leaderboard.
IsGlobalTeamsResponse == lb.query.kind = "teams" /\ lb.query.scope = "global"

RowsSortedBy(rows, stat) ==
    \A i, j \in 1..Len(rows) : i < j => rows[i][stat] >= rows[j][stat]

\* The matches team T plays in, and its side's and the other side's score.
MatchesOf(T) ==
    {id \in DOMAIN match : match[id].home_team_id = T \/ match[id].away_team_id = T}

OwnScore(T, id) ==
    IF match[id].home_team_id = T THEN match[id].home_score ELSE match[id].away_score

OtherScore(T, id) ==
    IF match[id].home_team_id = T THEN match[id].away_score ELSE match[id].home_score

\* C8 (as stated): the global team leaderboard with a limit of at least the
\* number of stored teams has, for every stored team that plays in a match,
\* one row with goals = the sum of its side's score over its matches, wins =
\* the number of its matches its side leads, points = 3 * wins + the number
\* of its matches with equal scores; the rows are ordered by descending
\* value of the requested statistic.
C8_RowPerStoredTeam ==
    (IsGlobalTeamsResponse /\ lb.query.limit >= Cardinality(DOMAIN team)) =>
        /\ RowsSortedBy(lb.rows, lb.query.stat)
        /\ \A T \in DOMAIN team : MatchesOf(T) # {} =>
              LET wins == Cardinality({id \in MatchesOf(T) : OwnScore(T, id) > OtherScore(T, id)})
                  draws == Cardinality({id \in MatchesOf(T) : OwnScore(T, id) = OtherScore(T, id)})
                  is == {i \in 1..Len(lb.rows) : lb.rows[i].team_id = T}
              IN  /\ Cardinality(is) = 1
                  /\ \A i \in is :
                        /\ lb.rows[i].goals = Sum(MatchesOf(T), LAMBDA id : OwnScore(T, id))
                        /\ lb.rows[i].wins = wins
                        /\ lb.rows[i].points = 3 * wins + draws

\* The team ids the stored matches refer to, stored teams or not.
TeamsInMatches ==
    {match[id].home_team_id : id \in DOMAIN match}
        \cup {match[id].away_team_id : id \in DOMAIN match}

\* The sides team T plays: <<match id, side>>; a match whose home and away
\* team are both T is two sides.
SidesOf(T) ==
    {sd \in (DOMAIN match) \X {"home", "away"} :
        T = (IF sd[2] = "home" THEN match[sd[1]].home_team_id
             ELSE match[sd[1]].away_team_id)}

SideScore(sd) ==
    IF sd[2] = "home" THEN match[sd[1]].home_score ELSE match[sd[1]].away_score

SideOtherScore(sd) ==
    IF sd[2] = "home" THEN match[sd[1]].away_score ELSE match[sd[1]].home_score

\* C8 (amended): the same with a limit of at least the number of team ids
\* the stored matches refer to, and with goals, wins and draws counted per
\* side the team plays.
C8_RowPerStoredTeamOfMatches ==
    (IsGlobalTeamsResponse /\ lb.query.limit >= Cardinality(TeamsInMatches)) =>
        /\ RowsSortedBy(lb.rows, lb.query.stat)
        /\ \A T \in DOMAIN team : MatchesOf(T) # {} =>
              LET wins == Cardinality({sd \in SidesOf(T) : SideScore(sd) > SideOtherScore(sd)})
                  draws == Cardinality({sd \in SidesOf(T) : SideScore(sd) = SideOtherScore(sd)})
                  is == {i \in 1..Len(lb.rows) : lb.rows[i].team_id = T}
              IN  /\ Cardinality(is) = 1
                  /\ \A i \in is :
                        /\ lb.rows[i].goals = Sum(SidesOf(T), SideScore)
                        /\ lb.rows[i].wins = wins
                        /\ lb.rows[i].points = 3 * wins + draws

\* A global leaderboard of two stored teams, the first with a win and a draw
\* over two matches.
C8_Witness ==
    /\ IsGlobalTeamsResponse
    /\ lb.query.limit >= Cardinality(TeamsInMatches)
    /\ Cardinality(DOMAIN match) = 2
    /\ Len(lb.rows) = 2
    /\ lb.rows[1].wins = 1
    /\ lb.rows[1].points = 4
    /\ lb.rows[2].points = 1

\* The response on display is one of the team leaderboard with scope
\* "country" and a country, or with scope "city" and a country and a city.
IsScopedTeamsResponse ==
    /\ lb.query.kind = "teams"
    /\ \/ lb.query.scope = "country" /\ lb.query.country # None
       \/ lb.query.scope = "city" /\ lb.query.country # None /\ lb.query.city # None

\* C11: every row of the team leaderboard with scope "country" and a country
\* is of a team whose stored country is that country, and every row with
\* scope "city" and a country and a city is of a team whose stored country
\* and city are those.
C11_RowsOfTeamsInScope ==
    IsScopedTeamsResponse =>
        \A i \in 1..Len(lb.rows) :
            LET T == lb.rows[i].team_id
            IN  /\ T \in DOMAIN team
                /\ team[T].country = lb.query.country
                /\ lb.query.scope = "city" => team[T].city = lb.query.city

====
